---- MODULE Spec2Model ----
(***************************************************************************)
(* State-machine model of the four HTTP services of the repository         *)
(* (service-a, service-b, service-c, service-d).  One behaviour follows    *)
(* one process of one service: its environment, its startup (main) and the *)
(* requests it handles.  Downstream dependencies are inputs: the response  *)
(* each outbound call receives is drawn from a small set.                  *)
(***************************************************************************)
EXTENDS Integers, Sequences, FiniteSets, TLC

VARIABLES svc, env, proc, flag, pc, req, span, sent, lastA, lastC, lastW,
          outA, outC, outW, resp

vars == <<svc, env, proc, flag, pc, req, span, sent, lastA, lastC, lastW,
          outA, outC, outW, resp>>

(***************************************************************************)
(* Bounds of the model.                                                    *)
(***************************************************************************)
MaxLen == 2
MaxTraceId == 2

(***************************************************************************)
(* Values.                                                                 *)
(***************************************************************************)
Services == {"a", "b", "c", "d"}

\* Characters of a query-parameter value: an ordinary one and the query
\* separator, which format! copies into the URL unescaped.
Chars == {"a", "&"}

Strs == UNION {[1..n -> Chars] : n \in 0..MaxLen}

None == [some |-> FALSE, val |-> <<>>]

Some(v) == [some |-> TRUE, val |-> v]

\* Option<String> of the Prefix structs.
Params == {None} \cup {Some(s) : s \in Strs}

TraceIds == 1..MaxTraceId

\* The inbound `traceparent` header: absent, present but not visible ASCII
\* (HeaderValue::to_str fails), present but not W3C trace-context, or valid.
Traceparents ==
    {[kind |-> k, tid |-> 0] : k \in {"absent", "opaque", "malformed"}}
        \cup {[kind |-> "valid", tid |-> t] : t \in TraceIds}

\* The process environment.  tracing is the value of DD_TRACING_ENABLED;
\* the other fields say whether the variable is set.  RUST_LOG is taken to
\* let the INFO spans of #[instrument] through the EnvFilter.
Envs ==
    [tracing : {"unset", "true", "false", "junk"},
     agent : BOOLEAN, bind : BOOLEAN,
     a_url : BOOLEAN, c_url : BOOLEAN, w_url : BOOLEAN, w_key : BOOLEAN]

\* The variables a service reads at all; the others are left unset.
EnvOf(s) ==
    {e \in Envs :
        /\ (s # "b" => ~e.a_url /\ ~e.c_url)
        /\ (s # "d" => ~e.w_url /\ ~e.w_key)}

EmptyMap == [n \in {} |-> 0]

NoResponse == [status |-> 0, body |-> EmptyMap]

NoOutcome == [kind |-> "NotInvoked", status |-> 0, model |-> EmptyMap]

NoReply == [ok |-> FALSE, status |-> 0, parse |-> FALSE, model |-> EmptyMap]

NoRequest == [traceparent |-> [kind |-> "absent", tid |-> 0], param |-> None]

(***************************************************************************)
(* Startup: main of every service.                                         *)
(***************************************************************************)
\* tracing_enabled.parse::<bool>() with the fallback to false.
ParseFlag(v) == v = "true"

\* Whether main reaches axum::serve: every expect/unwrap/panic of main.
MainStarts(e, installOk, bindOk) ==
    /\ e.tracing # "unset"
    /\ (ParseFlag(e.tracing) => e.agent /\ installOk)
    /\ e.bind
    /\ bindOk

Init ==
    /\ svc \in Services
    /\ env \in EnvOf(svc)
    /\ proc = "starting"
    /\ flag = FALSE
    /\ pc = "idle"
    /\ req = NoRequest
    /\ span = 0
    /\ sent = <<>>
    /\ lastA = NoReply
    /\ lastC = NoReply
    /\ lastW = NoReply
    /\ outA = NoOutcome
    /\ outC = NoOutcome
    /\ outW = NoOutcome
    /\ resp = NoResponse

Main(installOk, bindOk) ==
    /\ proc = "starting"
    /\ IF MainStarts(env, installOk, bindOk)
          THEN /\ proc' = "serving"
               /\ flag' = ParseFlag(env.tracing)
          ELSE /\ proc' = "crashed"
               /\ flag' = flag
    /\ UNCHANGED <<svc, env, pc, req, span, sent, lastA, lastC, lastW,
                   outA, outC, outW, resp>>

(***************************************************************************)
(* Trace context.                                                          *)
(***************************************************************************)
\* TraceContextPropagator::extract: the remote trace id, 0 for no parent.
Extract(h) == IF h.kind = "valid" THEN h.tid ELSE 0

\* headers.get("traceparent").unwrap().to_str().unwrap() does not panic.
HeaderReadable(h) == h.kind \in {"malformed", "valid"}

\* The trace id of the span #[instrument] opens for a request: fresh when the
\* telemetry layer is registered, none (0) otherwise.
NewSpans == IF flag THEN TraceIds ELSE {0}

\* span.set_parent(context): a recording span adopts a valid remote parent.
SetParent(s, parent) == IF s # 0 /\ parent # 0 THEN parent ELSE s

\* propagator.inject_context(&ctx, &mut fields): writes traceparent only
\* for a valid span context.
Inject(s) == IF s # 0 THEN [n \in {"traceparent"} |-> s] ELSE EmptyMap

Ready == proc = "serving" /\ pc \in {"idle", "done", "panicked"}

(***************************************************************************)
(* Query parameters and URLs.  A string is a sequence of tokens; "=" and   *)
(* "&" are the tokens a URL's query is split on.                           *)
(***************************************************************************)
Unknown == <<"Unknown">>

DefaultZip == <<"76262">>

\* if let Some(s) = passed_value { s } else { default }
PrefixOf(opt, default) == IF opt.some THEN opt.val ELSE default

\* format!("{}/route?p={}", service_a_host, prefix): the query of the URL.
RouteQuery(prefix) == <<"p", "=">> \o prefix

\* format!("{}/current.json?q={}&key={}", host, prefix, key): the query.
WeatherQuery(prefix) == <<"q", "=">> \o prefix \o <<"&", "key", "=", "K">>

RECURSIVE TakeUntil(_, _)
\* The longest prefix of s that holds no token c.
TakeUntil(s, c) ==
    IF s = <<>> \/ Head(s) = c THEN <<>> ELSE <<Head(s)>> \o TakeUntil(Tail(s), c)

RECURSIVE DropThrough(_, _)
\* What follows the first token c of s; empty when s holds no c.
DropThrough(s, c) ==
    IF s = <<>> THEN <<>>
    ELSE IF Head(s) = c THEN Tail(s) ELSE DropThrough(Tail(s), c)

RECURSIVE QueryParam(_, _)
\* How the receiving server reads parameter `key` of a URL's query: the
\* query is split into pairs on "&", each pair into name and value on its
\* first "=".
QueryParam(query, key) ==
    IF query = <<>> THEN None
    ELSE LET pair == TakeUntil(query, "&")
         IN  IF TakeUntil(pair, "=") = <<key>>
                THEN Some(DropThrough(pair, "="))
                ELSE QueryParam(DropThrough(query, "&"), key)

(***************************************************************************)
(* Response models.                                                        *)
(***************************************************************************)
OK == 200

BAD_REQUEST == 400

INTERNAL_SERVER_ERROR == 500

GATEWAY_TIMEOUT == 504

\* Model of service-a: both fields are formatted from the prefix.
Model(prefix) ==
    [key_one |-> <<"(">> \o prefix \o <<")Field 1">>,
     key_two |-> <<"(">> \o prefix \o <<")Field 2">>]

\* ExternalModel of service-c.
TimeModel(now) == [key_time |-> now]

Times == {"t1", "t2"}

\* Bodies that deserialize into ServiceAModel / ServiceCModel /
\* WeatherApiResponse.
ServiceAModels ==
    {[key_one |-> "one", key_two |-> "two"], [key_one |-> "uno", key_two |-> "dos"]}

ServiceCModels == {TimeModel(t) : t \in Times}

WeatherApiResponses ==
    {[location |-> [name |-> "Argyle", region |-> "Texas"],
      current |-> [temp_c |-> 30, temp_f |-> 86]],
     [location |-> [name |-> "Oslo", region |-> "Oslo"],
      current |-> [temp_c |-> 0, temp_f |-> 32]]}

\* The model get_service_a substitutes for a gateway timeout.
TimedOut == [key_one |-> "Timed out", key_two |-> "Timed out"]

\* impl From<WeatherApiResponse> for WeatherResponse
WeatherResponseFrom(r) ==
    [celcius |-> r.current.temp_c, farenheight |-> r.current.temp_f,
     city |-> r.location.name, state |-> r.location.region]

\* ExternalModel of service-b, built by its handler.
ExternalModel(a, c) ==
    [key_one |-> a.key_one, key_two |-> a.key_two, key_time |-> c.key_time]

Statuses == {200, 201, 404, 500, 504}

\* r.status().is_success()
IsSuccess(s) == s >= 200 /\ s <= 299

\* What send().await and then json().await can give: a transport error, or a
\* status with a body that deserializes into one of `models` or does not.
\* The body of a non-success status is never read, so one body stands for all.
Replies(models) ==
    {NoReply}
        \cup {[ok |-> TRUE, status |-> s, parse |-> FALSE, model |-> EmptyMap] :
                s \in Statuses}
        \cup {[ok |-> TRUE, status |-> s, parse |-> TRUE, model |-> m] :
                s \in {t \in Statuses : IsSuccess(t)}, m \in models}
        \cup {[ok |-> TRUE, status |-> s, parse |-> TRUE,
               model |-> CHOOSE m \in models : TRUE] :
                s \in {t \in Statuses : ~IsSuccess(t)}}

\* Result<Model, StatusCode>
Ok(m) == [kind |-> "Ok", status |-> 0, model |-> m]

Err(s) == [kind |-> "Err", status |-> s, model |-> EmptyMap]

Pending == [kind |-> "Pending", status |-> 0, model |-> EmptyMap]

Panicked == [kind |-> "Panic", status |-> 0, model |-> EmptyMap]

\* get_service_a without its GATEWAY_TIMEOUT branch.
ClassifyA_NoFallback(r) ==
    IF ~r.ok THEN Err(INTERNAL_SERVER_ERROR)
    ELSE IF IsSuccess(r.status)
            THEN IF r.parse THEN Ok(r.model) ELSE Err(BAD_REQUEST)
    ELSE Err(BAD_REQUEST)

\* The match on the response in get_service_a.
ClassifyA(r) ==
    IF ~r.ok THEN Err(INTERNAL_SERVER_ERROR)
    ELSE IF IsSuccess(r.status)
            THEN IF r.parse THEN Ok(r.model) ELSE Err(BAD_REQUEST)
    ELSE IF r.status = GATEWAY_TIMEOUT THEN Ok(TimedOut)
    ELSE Err(BAD_REQUEST)

\* get_service_c with the GATEWAY_TIMEOUT branch of get_service_a.
ClassifyC_Fallback(r) ==
    IF ~r.ok THEN Err(INTERNAL_SERVER_ERROR)
    ELSE IF IsSuccess(r.status)
            THEN IF r.parse THEN Ok(r.model) ELSE Err(BAD_REQUEST)
    ELSE IF r.status = GATEWAY_TIMEOUT THEN Ok(TimeModel("t1"))
    ELSE Err(BAD_REQUEST)

\* The match on the response in get_service_c.
ClassifyC(r) ==
    IF ~r.ok THEN Err(INTERNAL_SERVER_ERROR)
    ELSE IF IsSuccess(r.status)
            THEN IF r.parse THEN Ok(r.model) ELSE Err(BAD_REQUEST)
    ELSE Err(BAD_REQUEST)

\* service-d's match with the two error statuses exchanged.
ClassifyW_Swapped(r) ==
    IF ~r.ok THEN Err(BAD_REQUEST)
    ELSE IF IsSuccess(r.status)
            THEN IF r.parse THEN Ok(WeatherResponseFrom(r.model)) ELSE Err(BAD_REQUEST)
    ELSE Err(INTERNAL_SERVER_ERROR)

\* The match on the response in service-d's handler.
ClassifyW(r) ==
    IF ~r.ok THEN Err(INTERNAL_SERVER_ERROR)
    ELSE IF IsSuccess(r.status)
            THEN IF r.parse THEN Ok(WeatherResponseFrom(r.model)) ELSE Err(BAD_REQUEST)
    ELSE Err(BAD_REQUEST)

\* Ok(Json(m)) and Err(status) as the response axum sends.
Json(m) == [status |-> OK, body |-> m]

ErrorStatus(s) == [status |-> s, body |-> EmptyMap]

\* An outbound GET: the dependency, the query of its URL, its headers.
Outbound(dep, query, s) == [dep |-> dep, query |-> query, headers |-> Inject(s)]

(***************************************************************************)
(* service-a: GET /route.                                                  *)
(***************************************************************************)
HandlerA(h, q) ==
    /\ svc = "a"
    /\ Ready
    /\ req' = [traceparent |-> h, param |-> q]
    /\ sent' = <<>>
    /\ IF flag /\ ~HeaderReadable(h)
          THEN /\ pc' = "panicked"
               /\ resp' = NoResponse
               /\ span' \in NewSpans
          ELSE /\ pc' = "done"
               /\ resp' = Json(Model(PrefixOf(q, Unknown)))
               /\ \E s \in NewSpans :
                    span' = IF flag THEN SetParent(s, Extract(h)) ELSE s
    /\ UNCHANGED <<svc, env, proc, flag, lastA, lastC, lastW, outA, outC, outW>>

(***************************************************************************)
(* service-c: GET /time.                                                   *)
(***************************************************************************)
HandlerC(h, now) ==
    /\ svc = "c"
    /\ Ready
    /\ req' = [traceparent |-> h, param |-> None]
    /\ sent' = <<>>
    /\ IF flag /\ ~HeaderReadable(h)
          THEN /\ pc' = "panicked"
               /\ resp' = NoResponse
               /\ span' \in NewSpans
          ELSE /\ pc' = "done"
               /\ resp' = Json(TimeModel(now))
               /\ \E s \in NewSpans :
                    span' = IF flag THEN SetParent(s, Extract(h)) ELSE s
    /\ UNCHANGED <<svc, env, proc, flag, lastA, lastC, lastW, outA, outC, outW>>

(***************************************************************************)
(* service-b: GET /, the aggregate of service A and service C.             *)
(***************************************************************************)
\* handler without the `?` on get_service_a: it goes on whatever the result.
Proceeds_Always(a) == a.kind \in {"Ok", "Err"}

\* The `?` after get_service_a(...).await: the handler goes on only on Ok.
Proceeds(a) == a.kind = "Ok"

\* handler without the `?` on get_service_c: a failure of service C is
\* answered with a 200 and a placeholder time.
HandlerResult_BestEffort(a, c) ==
    IF a.kind = "Err" THEN ErrorStatus(a.status)
    ELSE IF c.kind = "Err"
            THEN Json(ExternalModel(a.model, TimeModel("unknown")))
    ELSE Json(ExternalModel(a.model, c.model))

\* handler that answers a failure of service C with the fields of service A
\* alone, under the status of the failure.
HandlerResult_Partial(a, c) ==
    IF a.kind = "Err" THEN ErrorStatus(a.status)
    ELSE IF c.kind = "Err" THEN [status |-> c.status, body |-> a.model]
    ELSE Json(ExternalModel(a.model, c.model))

\* What handler returns once the calls it made have resolved.
HandlerResult(a, c) ==
    IF a.kind = "Err" THEN ErrorStatus(a.status)
    ELSE IF c.kind = "Err" THEN ErrorStatus(c.status)
    ELSE Json(ExternalModel(a.model, c.model))

\* get_service_a up to send().await: the request it sends.
ServiceARequest(q, s) == Outbound("A", RouteQuery(PrefixOf(q, Unknown)), s)

\* get_service_c up to send().await: the request it sends.
ServiceCRequest(s) == Outbound("C", <<>>, s)

\* handler is entered and get_service_a runs up to its send().await.
\* The handler takes no HeaderMap: the inbound traceparent is not read.
HandlerB(h, q) ==
    /\ svc = "b"
    /\ Ready
    /\ req' = [traceparent |-> h, param |-> q]
    /\ span' \in NewSpans
    /\ lastA' = NoReply
    /\ lastC' = NoReply
    /\ outC' = NoOutcome
    /\ resp' = NoResponse
    /\ IF env.a_url
          THEN /\ sent' = <<ServiceARequest(q, span')>>
               /\ outA' = Pending
               /\ pc' = "await_a"
          ELSE /\ sent' = <<>>
               /\ outA' = Panicked
               /\ pc' = "panicked"
    /\ UNCHANGED <<svc, env, proc, flag, lastW, outW>>

\* get_service_a that sends its request once more after a transport error.
ServiceAReplies_Retry(r) ==
    /\ svc = "b"
    /\ pc = "await_a"
    /\ lastA' = r
    /\ IF ~r.ok /\ Len(sent) < 2
          THEN /\ sent' = Append(sent, ServiceARequest(req.param, span))
               /\ UNCHANGED <<outA, outC, pc, resp>>
          ELSE /\ outA' = ClassifyA(r)
               /\ IF ~Proceeds(outA')
                     THEN /\ resp' = HandlerResult(outA', outC)
                          /\ pc' = "done"
                          /\ UNCHANGED <<sent, outC>>
                     ELSE IF env.c_url
                             THEN /\ sent' = Append(sent, ServiceCRequest(span))
                                  /\ outC' = Pending
                                  /\ pc' = "await_c"
                                  /\ resp' = resp
                             ELSE /\ outC' = Panicked
                                  /\ pc' = "panicked"
                                  /\ UNCHANGED <<sent, resp>>
    /\ UNCHANGED <<svc, env, proc, flag, req, span, lastC, lastW, outW>>

\* send().await of get_service_a completes; handler runs on to the
\* send().await of get_service_c, or returns.
ServiceAReplies(r) ==
    /\ svc = "b"
    /\ pc = "await_a"
    /\ lastA' = r
    /\ outA' = ClassifyA(r)
    /\ IF ~Proceeds(outA')
          THEN /\ resp' = HandlerResult(outA', outC)
               /\ pc' = "done"
               /\ UNCHANGED <<sent, outC>>
          ELSE IF env.c_url
                  THEN /\ sent' = Append(sent, ServiceCRequest(span))
                       /\ outC' = Pending
                       /\ pc' = "await_c"
                       /\ resp' = resp
                  ELSE /\ outC' = Panicked
                       /\ pc' = "panicked"
                       /\ UNCHANGED <<sent, resp>>
    /\ UNCHANGED <<svc, env, proc, flag, req, span, lastC, lastW, outW>>

\* send().await of get_service_c completes; handler returns.
ServiceCReplies(r) ==
    /\ svc = "b"
    /\ pc = "await_c"
    /\ lastC' = r
    /\ outC' = ClassifyC(r)
    /\ resp' = HandlerResult(outA, outC')
    /\ pc' = "done"
    /\ UNCHANGED <<svc, env, proc, flag, req, span, sent, lastA, lastW, outA, outW>>

(***************************************************************************)
(* service-d: GET /weather.                                                *)
(***************************************************************************)
\* The request handler sends to the weather API.
WeatherRequest(q, s) == Outbound("W", WeatherQuery(PrefixOf(q, DefaultZip)), s)

\* handler is entered and runs up to its send().await.
HandlerD(h, q) ==
    /\ svc = "d"
    /\ Ready
    /\ req' = [traceparent |-> h, param |-> q]
    /\ lastW' = NoReply
    /\ resp' = NoResponse
    /\ \E s \in NewSpans :
         IF flag /\ ~HeaderReadable(h)
            THEN /\ span' = s
                 /\ sent' = <<>>
                 /\ outW' = NoOutcome
                 /\ pc' = "panicked"
            ELSE /\ span' = IF flag THEN SetParent(s, Extract(h)) ELSE s
                 /\ IF env.w_url /\ env.w_key
                       THEN /\ sent' = <<WeatherRequest(q, span')>>
                            /\ outW' = Pending
                            /\ pc' = "await_w"
                       ELSE /\ sent' = <<>>
                            /\ outW' = Panicked
                            /\ pc' = "panicked"
    /\ UNCHANGED <<svc, env, proc, flag, lastA, lastC, outA, outC>>

\* send().await completes; handler returns.
WeatherReplies(r) ==
    /\ svc = "d"
    /\ pc = "await_w"
    /\ lastW' = r
    /\ outW' = ClassifyW(r)
    /\ resp' = IF outW'.kind = "Ok" THEN Json(outW'.model)
                                    ELSE ErrorStatus(outW'.status)
    /\ pc' = "done"
    /\ UNCHANGED <<svc, env, proc, flag, req, span, sent, lastA, lastC, outA, outC>>

(***************************************************************************)
(* GET /health of every service (GET / of service-c).                      *)
(***************************************************************************)
Health ==
    /\ Ready
    /\ req' = NoRequest
    /\ resp' = Json([status |-> "Healthy"])
    /\ pc' = "done"
    /\ span' = 0
    /\ sent' = <<>>
    /\ lastA' = NoReply
    /\ lastC' = NoReply
    /\ lastW' = NoReply
    /\ outA' = NoOutcome
    /\ outC' = NoOutcome
    /\ outW' = NoOutcome
    /\ UNCHANGED <<svc, env, proc, flag>>

Next ==
    \/ \E installOk \in BOOLEAN, bindOk \in BOOLEAN : Main(installOk, bindOk)
    \/ \E h \in Traceparents, q \in Params : HandlerA(h, q)
    \/ \E h \in Traceparents, q \in Params : HandlerB(h, q)
    \/ \E r \in Replies(ServiceAModels) : ServiceAReplies(r)
    \/ \E r \in Replies(ServiceCModels) : ServiceCReplies(r)
    \/ \E h \in Traceparents, now \in Times : HandlerC(h, now)
    \/ \E h \in Traceparents, q \in Params : HandlerD(h, q)
    \/ \E r \in Replies(WeatherApiResponses) : WeatherReplies(r)
    \/ Health

Spec == Init /\ [][Next]_vars

(***************************************************************************)
(* Properties.                                                             *)
(***************************************************************************)
\* The current request is a request to the service's handler that has
\* returned a response or panicked.
Finished == pc \in {"done", "panicked"}

Invoked(o) == o.kind # "NotInvoked"

Resolved(o) == o.kind \in {"Ok", "Err"}

ErrorStatuses == 400..599

AggregateKeys == {"key_one", "key_two", "key_time"}

\* C1: in service-a, service-c and service-d a request whose traceparent
\* header is absent or malformed is never aborted by the reading of the
\* header: the handler does not panic unless a setting it reads is missing.
C1_HeaderNeverAborts ==
    (/\ svc \in {"a", "c", "d"}
     /\ req.traceparent.kind # "valid"
     /\ (svc = "d" => env.w_url /\ env.w_key))
        => pc # "panicked"

\* C2 as stated: whenever service A answered 504, get_service_a resolved to
\* the fallback model and the response of the aggregate request is a 200
\* carrying the placeholder strings, never an error status.
C2_TimeoutAlwaysSuccess ==
    (svc = "b" /\ lastA.ok /\ lastA.status = GATEWAY_TIMEOUT /\ pc = "done")
        => /\ outA = Ok(TimedOut)
           /\ resp.status = OK
           /\ resp.body.key_one = "Timed out"
           /\ resp.body.key_two = "Timed out"

\* C2 as amended: whenever service A answered 504, get_service_a resolved to
\* the fallback model, service C is called next, and the response is a 200
\* carrying the placeholder strings exactly when get_service_c resolved to
\* Ok; otherwise it is the error status of get_service_c.
C2_TimeoutFallsBack ==
    (svc = "b" /\ lastA.ok /\ lastA.status = GATEWAY_TIMEOUT)
        => /\ outA = Ok(TimedOut)
           /\ Invoked(outC)
           /\ (pc = "done" =>
                 IF outC.kind = "Ok"
                    THEN resp = Json([key_one |-> "Timed out",
                                      key_two |-> "Timed out",
                                      key_time |-> outC.model.key_time])
                    ELSE outC.kind = "Err" /\ resp = ErrorStatus(outC.status))

C2_Witness ==
    /\ svc = "b"
    /\ lastA.ok /\ lastA.status = GATEWAY_TIMEOUT
    /\ pc = "done"
    /\ resp.status = OK
    /\ resp.body.key_one = "Timed out"

\* C3: in service-b, once service A has answered a non-2xx status other
\* than 504, or service C any non-2xx status, the handler has returned an
\* error status with no body, whatever the other dependency answered.
C3_RejectionFails ==
    (/\ svc = "b"
     /\ \/ lastA.ok /\ ~IsSuccess(lastA.status) /\ lastA.status # GATEWAY_TIMEOUT
        \/ lastC.ok /\ ~IsSuccess(lastC.status))
        => /\ pc = "done"
           /\ resp.status \in ErrorStatuses
           /\ resp.body = EmptyMap

C3_Witness ==
    /\ svc = "b"
    /\ lastA.ok /\ lastA.status = GATEWAY_TIMEOUT
    /\ lastC.ok /\ lastC.status = GATEWAY_TIMEOUT
    /\ resp = ErrorStatus(BAD_REQUEST)

\* C4: a finished aggregate request of service-b returned 200 if and only
\* if every call it invoked resolved to Ok (a parsed or a fallback model);
\* and a request that returned a response returned 200 exactly when no call
\* it invoked resolved to Err.
C4_SuccessIffAllOk ==
    (svc = "b" /\ Finished /\ Invoked(outA))
        => /\ (pc = "done" /\ resp.status = OK)
                <=> \A o \in {outA, outC} : Invoked(o) => o.kind = "Ok"
           /\ pc = "done" =>
                (resp.status = OK <=> \A o \in {outA, outC} : o.kind # "Err")

C4_Witness ==
    /\ svc = "b" /\ pc = "done"
    /\ outA.kind = "Ok" /\ outC.kind = "Err"
    /\ resp.status # OK

\* C5: every downstream call that has resolved maps a transport failure to
\* 500, a non-success status (504 excepted for service A) to 400 and a
\* success status with an undeserializable body to 400, and a call that
\* resolved to Err makes the handler return exactly that status.
CallMapsStatus(last, out, timeout) ==
    Resolved(out) =>
        /\ ~last.ok => out = Err(INTERNAL_SERVER_ERROR)
        /\ (last.ok /\ ~IsSuccess(last.status) /\ last.status \notin timeout)
              => out = Err(BAD_REQUEST)
        /\ (last.ok /\ IsSuccess(last.status) /\ ~last.parse)
              => out = Err(BAD_REQUEST)
        /\ out.kind = "Err" => pc = "done" /\ resp = ErrorStatus(out.status)

C5_ErrorMapping ==
    /\ svc = "b" => /\ CallMapsStatus(lastA, outA, {GATEWAY_TIMEOUT})
                    /\ CallMapsStatus(lastC, outC, {})
    /\ svc = "d" => CallMapsStatus(lastW, outW, {})

C5_Witness ==
    /\ svc = "b" /\ pc = "done"
    /\ outA.kind = "Ok"
    /\ ~lastC.ok /\ outC = Err(INTERNAL_SERVER_ERROR)
    /\ resp = ErrorStatus(INTERNAL_SERVER_ERROR)

\* C6: an aggregate request of service-b that produced a response produced
\* either a 200 whose body holds key_one, key_two and key_time taken from
\* the models of service A and service C, or an error status with no body.
C6_CompleteOrError ==
    (svc = "b" /\ pc = "done" /\ Invoked(outA))
        => \/ /\ resp.status = OK
              /\ DOMAIN resp.body = AggregateKeys
              /\ outA.kind = "Ok" /\ outC.kind = "Ok"
              /\ resp.body.key_one = outA.model.key_one
              /\ resp.body.key_two = outA.model.key_two
              /\ resp.body.key_time = outC.model.key_time
           \/ /\ resp.status \in ErrorStatuses
              /\ resp.body = EmptyMap

C6_Witness ==
    /\ svc = "b" /\ pc = "done"
    /\ lastA.ok /\ lastA.status = OK
    /\ resp.status = OK
    /\ resp.body.key_one = "uno"
    /\ resp.body.key_time = "t2"

\* C7: for a request of service-b or service-d that carries a well-formed
\* traceparent, every outbound request sent for it carries a traceparent
\* with the trace id of the inbound one.
C7_SameTraceId ==
    (svc \in {"b", "d"} /\ req.traceparent.kind = "valid")
        => \A i \in DOMAIN sent :
              /\ "traceparent" \in DOMAIN sent[i].headers
              /\ sent[i].headers.traceparent = req.traceparent.tid

\* C8: every outbound request of service-b and service-d carries a
\* traceparent header, whether tracing is enabled or not.
C8_AlwaysInjected ==
    \A i \in DOMAIN sent : "traceparent" \in DOMAIN sent[i].headers

\* C9: a process that serves requests has every required setting, the
\* base URLs and the API key of its dependencies included.
RequiredSettings ==
    /\ env.tracing # "unset"
    /\ (ParseFlag(env.tracing) => env.agent)
    /\ env.bind
    /\ (svc = "b" => env.a_url /\ env.c_url)
    /\ (svc = "d" => env.w_url /\ env.w_key)

C9_ServingImpliesConfigured == proc = "serving" => RequiredSettings

\* C10: the outbound call carries the supplied query parameter, or the
\* default when it is absent: the weather API reads zip or "76262" as q,
\* service A reads name or "Unknown" as p, and service-a answers with both
\* fields formatted from p or "Unknown".
C10_ParameterOrDefault ==
    /\ (svc = "a" /\ pc = "done" /\ DOMAIN resp.body = {"key_one", "key_two"})
          => LET v == IF req.param.some THEN req.param.val ELSE <<"Unknown">>
             IN  /\ resp.body.key_one = <<"(">> \o v \o <<")Field 1">>
                 /\ resp.body.key_two = <<"(">> \o v \o <<")Field 2">>
    /\ (svc = "b" /\ Len(sent) >= 1)
          => QueryParam(sent[1].query, "p")
                = Some(IF req.param.some THEN req.param.val ELSE <<"Unknown">>)
    /\ (svc = "d" /\ Len(sent) >= 1)
          => QueryParam(sent[1].query, "q")
                = Some(IF req.param.some THEN req.param.val ELSE <<"76262">>)

\* The positions of `sent` that hold a request to dependency d.
SentTo(d) == {i \in DOMAIN sent : sent[i].dep = d}

\* C11: in service-b the request to service C is sent only after
\* get_service_a resolved to Ok and follows the request to service A; once
\* get_service_a resolved to Err no request to service C exists and the
\* handler has returned; and a failed aggregate returns exactly the status
\* of the first call that resolved to Err, in the order A then C.
C11_AbortsOnFirstFailure ==
    svc = "b" =>
        /\ \A i \in SentTo("C") : outA.kind = "Ok" /\ i = 2 /\ sent[1].dep = "A"
        /\ Invoked(outC) => outA.kind = "Ok"
        /\ outA.kind = "Err" =>
              /\ SentTo("C") = {}
              /\ pc = "done"
              /\ resp = ErrorStatus(outA.status)
        /\ (outA.kind = "Ok" /\ outC.kind = "Err") =>
              pc = "done" /\ resp = ErrorStatus(outC.status)
        /\ (pc = "done" /\ Invoked(outA) /\ resp.status # OK) =>
              \/ outA.kind = "Err"
              \/ outA.kind = "Ok" /\ outC.kind = "Err"

C11_Witness ==
    /\ svc = "b" /\ pc = "done"
    /\ lastA.ok /\ lastA.status = INTERNAL_SERVER_ERROR
    /\ outA = Err(BAD_REQUEST)
    /\ outC.kind = "NotInvoked"
    /\ Len(sent) = 1
    /\ resp = ErrorStatus(BAD_REQUEST)

\* C12: within one inbound request at most one request is sent to each
\* dependency, whatever the outcome of the call: service-b sends at most one
\* to service A and one to service C, service-d at most one to the weather
\* API, service-a and service-c none.
C12_NoRetry ==
    /\ \A d \in {"A", "C", "W"} : Cardinality(SentTo(d)) <= 1
    /\ \A i \in DOMAIN sent :
          sent[i].dep \in (CASE svc = "b" -> {"A", "C"}
                             [] svc = "d" -> {"W"}
                             [] OTHER -> {})

C12_Witness ==
    /\ svc = "b" /\ pc = "done"
    /\ ~lastA.ok /\ outA = Err(INTERNAL_SERVER_ERROR)
    /\ Cardinality(SentTo("A")) = 1
    /\ Len(sent) = 1

====
